---------------------------- MODULE Spec2Model ----------------------------
(***************************************************************************)
(* Model of medical_app.py (Streamlit "Medical Helper").                   *)
(*                                                                         *)
(* A text is a sequence of characters; a character is a one-character      *)
(* string, or the name of its code point ("U+00A0") where TLA+ has no      *)
(* escape for it.  "U+00E9" stands for a non-ASCII letter.                 *)
(* Four specifications:                                                    *)
(*   SpecScan     check_red_flags applied to bounded texts                 *)
(*   SpecExtract  extract_text_from_file applied to bounded uploads        *)
(*   Spec         main() rerun by two sessions sharing one working dir     *)
(*   SpecSession  main() rerun by one session, request after request       *)
(***************************************************************************)
EXTENDS Integers, Sequences, FiniteSets, TLC

-----------------------------------------------------------------------------
(* Characters, as Python's re and str see them.                            *)

LowerLetters == <<"a","b","c","d","e","f","g","h","i","j","k","l","m",
                  "n","o","p","q","r","s","t","u","v","w","x","y","z">>
UpperLetters == <<"A","B","C","D","E","F","G","H","I","J","K","L","M",
                  "N","O","P","Q","R","S","T","U","V","W","X","Y","Z">>

NonAscii == "U+00E9"

Range(f) == {f[i] : i \in DOMAIN f}

LowerSet == Range(LowerLetters)
UpperSet == Range(UpperLetters)
Digits == {"0", "1", "2", "3", "4", "5", "6", "7", "8", "9"}

\* the whitespace of str: [ \t\n\r\f\v], the separators U+001C..U+001F, and
\* the Unicode spaces; a character without a TLA+ escape goes by its name
AsciiSpaces == {" ", "\t", "\n", "U+000B", "\f", "\r",
                "U+001C", "U+001D", "U+001E", "U+001F"}
UnicodeSpaces == {"U+0085", "U+00A0", "U+1680", "U+2000", "U+2001", "U+2002",
                  "U+2003", "U+2004", "U+2005", "U+2006", "U+2007", "U+2008",
                  "U+2009", "U+200A", "U+2028", "U+2029", "U+202F", "U+205F",
                  "U+3000"}
SpaceChars == AsciiSpaces \cup UnicodeSpaces
WordChars == LowerSet \cup UpperSet \cup Digits \cup {"_", NonAscii}
LowerOf == [c \in UpperSet |->
               LowerLetters[CHOOSE i \in DOMAIN UpperLetters : UpperLetters[i] = c]]
UpperOf == [c \in LowerSet |->
               UpperLetters[CHOOSE i \in DOMAIN LowerLetters : LowerLetters[i] = c]]

\* \s of a str pattern, str.isspace(), what str.strip() removes
IsSpace(c) == c \in SpaceChars

\* \w of a str pattern: alphanumerics (Unicode ones too) and underscore
IsWordChar(c) == c \in WordChars

\* str.lower() on one character
LowerChar(c) == IF c \in UpperSet THEN LowerOf[c] ELSE c

\* variant: the text left in the case it came in
LowerNone(text) == text
\* str.lower()
Lower(text) == [i \in DOMAIN text |-> LowerChar(text[i])]

-----------------------------------------------------------------------------
(* The fragment of re that RED_FLAGS uses.  A pattern is a sequence of     *)
(* elements: \b, a literal character, \s*.                                 *)

WordBoundary == [k |-> "b"]
WsStar == [k |-> "ws*"]
Lit(c) == [k |-> "lit", c |-> c]
Literal(word) == [i \in DOMAIN word |-> Lit(word[i])]

\* \b at the position before text[pos]: exactly one side is a word character
AtBoundary(text, pos) ==
    LET before == pos > 1 /\ IsWordChar(text[pos - 1])
        after  == pos <= Len(text) /\ IsWordChar(text[pos])
    IN before # after

RECURSIVE MatchAt(_, _, _, _)
\* does pat, from element k on, match text starting at position pos
MatchAt(pat, k, text, pos) ==
    IF k > Len(pat) THEN TRUE
    ELSE CASE pat[k].k = "b" ->
                AtBoundary(text, pos) /\ MatchAt(pat, k + 1, text, pos)
           [] pat[k].k = "lit" ->
                /\ pos <= Len(text)
                /\ text[pos] = pat[k].c
                /\ MatchAt(pat, k + 1, text, pos + 1)
           [] pat[k].k = "ws*" ->
                \/ /\ pos <= Len(text)
                   /\ IsSpace(text[pos])
                   /\ MatchAt(pat, k, text, pos + 1)
                \/ MatchAt(pat, k + 1, text, pos)

\* re.search(pat, text) is not None
re_search(pat, text) == \E pos \in 1..(Len(text) + 1) : MatchAt(pat, 1, text, pos)

-----------------------------------------------------------------------------
(* RED_FLAGS, in declaration order (a dict keeps insertion order).  The    *)
(* messages are the source's without their leading emoji.                  *)

RED_FLAGS == <<
    [w1 |-> <<"c","h","e","s","t">>, w2 |-> <<"p","a","i","n">>,
     message |-> "CALL 911: May indicate heart attack!"],
    [w1 |-> <<"d","i","f","f","i","c","u","l","t","y">>,
     w2 |-> <<"b","r","e","a","t","h","i","n","g">>,
     message |-> "Seek emergency care immediately!"],
    [w1 |-> <<"s","u","d","d","e","n">>, w2 |-> <<"n","u","m","b","n","e","s","s">>,
     message |-> "Stroke warning - call emergency services!"],
    [w1 |-> <<"s","e","v","e","r","e">>, w2 |-> <<"b","l","e","e","d","i","n","g">>,
     message |-> "Apply pressure and call for emergency help!"],
    [w1 |-> <<"s","u","i","c","i","d","a","l">>, w2 |-> <<"t","h","o","u","g","h","t","s">>,
     message |-> "Contact emergency services or a crisis hotline immediately"] >>

Rules == DOMAIN RED_FLAGS

\* variant: the pattern without its two \b
FlagPatternNoBoundary(flag) == Literal(flag.w1) \o <<WsStar>> \o Literal(flag.w2)
\* the key of a RED_FLAGS entry:  r"\bW1\s*W2\b"
FlagPattern(flag) ==
    <<WordBoundary>> \o Literal(flag.w1) \o <<WsStar>> \o Literal(flag.w2) \o <<WordBoundary>>

\* the compiled patterns, in declaration order
FlagPatterns == [r \in Rules |-> FlagPattern(RED_FLAGS[r])]

EmergencyNotice == "Do not use this app for emergencies. Seek immediate medical attention."

RECURSIVE ScanFrom(_, _)
\* the for loop of check_red_flags from the k-th entry on, over lowered text
ScanFrom(text, k) ==
    IF k > Len(RED_FLAGS) THEN [hit |-> FALSE, errors |-> <<>>]
    ELSE IF re_search(FlagPatterns[k], text)
         THEN [hit |-> TRUE, errors |-> <<RED_FLAGS[k].message, EmergencyNotice>>]
         ELSE ScanFrom(text, k + 1)

RECURSIVE ScanAllFrom(_, _)
\* variant: the loop without its return, every matching rule reported
ScanAllFrom(text, k) ==
    IF k > Len(RED_FLAGS) THEN [hit |-> FALSE, errors |-> <<>>]
    ELSE LET rest == ScanAllFrom(text, k + 1)
         IN IF re_search(FlagPatterns[k], text)
            THEN [hit |-> TRUE,
                  errors |-> <<RED_FLAGS[k].message, EmergencyNotice>> \o rest.errors]
            ELSE rest

check_red_flags_all(text) ==
    IF text = <<>> THEN [hit |-> FALSE, errors |-> <<>>]
    ELSE ScanAllFrom(Lower(text), 1)

\* check_red_flags(text): the value returned and the st.error calls made
check_red_flags(text) ==
    IF text = <<>> THEN [hit |-> FALSE, errors |-> <<>>]
    ELSE ScanFrom(Lower(text), 1)

-----------------------------------------------------------------------------
(* extract_text_from_file.                                                 *)
(* An upload is [type, parts]: the pages of a PDF, the paragraphs of a     *)
(* DOCX, or the single decoded content of a text file.  What the           *)
(* environment does to the call is [fault, unlink_fails]: fault names the  *)
(* statement that raises ("none", "create": NamedTemporaryFile, "write":   *)
(* getvalue()/tmp.write, "parse": the reader or the decoder).              *)

PDF == "application/pdf"
DOCX == "application/vnd.openxmlformats-officedocument.wordprocessingml.document"
TXT == "text/plain"

RECURSIVE Join(_)
\* "".join(parts)
Join(parts) == IF parts = <<>> THEN <<>> ELSE Head(parts) \o Join(Tail(parts))

RECURSIVE JoinLines(_)
\* "\n".join(parts)
JoinLines(parts) ==
    IF parts = <<>> THEN <<>>
    ELSE IF Len(parts) = 1 THEN parts[1]
    ELSE parts[1] \o <<"\n">> \o JoinLines(Tail(parts))

\* raw_text, lines 38-47
RawText(uploaded_file) ==
    IF uploaded_file.type \in {PDF, DOCX}
    THEN JoinLines(uploaded_file.parts)
    ELSE uploaded_file.parts[1]

\* re.sub(r'(?<!\n)\n(?!\n)', ' ', raw_text)
SubSingleNewlines(text) ==
    [i \in DOMAIN text |->
        IF /\ text[i] = "\n"
           /\ ~(i > 1 /\ text[i - 1] = "\n")
           /\ ~(i < Len(text) /\ text[i + 1] = "\n")
        THEN " " ELSE text[i]]

RECURSIVE SkipSpaces(_)
SkipSpaces(text) ==
    IF text # <<>> /\ IsSpace(Head(text)) THEN SkipSpaces(Tail(text)) ELSE text

RECURSIVE CollapseWhitespace(_)
\* re.sub(r'\s+', ' ', text)
CollapseWhitespace(text) ==
    IF text = <<>> THEN <<>>
    ELSE IF IsSpace(Head(text))
         THEN <<" ">> \o CollapseWhitespace(SkipSpaces(text))
         ELSE <<Head(text)>> \o CollapseWhitespace(Tail(text))

RECURSIVE DropTrailingSpaces(_)
DropTrailingSpaces(text) ==
    IF text # <<>> /\ IsSpace(text[Len(text)])
    THEN DropTrailingSpaces(SubSeq(text, 1, Len(text) - 1))
    ELSE text

\* str.strip()
Strip(text) == DropTrailingSpaces(SkipSpaces(text))

\* variant: lines 49 and 51 without line 50
NormalizeNoCollapse(raw_text) == Strip(SubSingleNewlines(raw_text))
\* lines 49-51
Normalize(raw_text) == Strip(CollapseWhitespace(SubSingleNewlines(raw_text)))

StError(text, detail) == [level |-> "error", text |-> text, detail |-> detail]
StWarning(text, detail) == [level |-> "warning", text |-> text, detail |-> detail]

\* str(e) of the exception a fault raises
FaultText(fault) ==
    CASE fault = "create" -> "cannot create temporary file"
      [] fault = "write" -> "cannot write uploaded bytes"
      [] fault = "parse" -> "cannot parse file"
      [] OTHER -> ""

\* tmp_path is bound once line 36 has run
TmpPathBound(env) == env.fault \in {"none", "parse"}
\* the temporary file exists once NamedTemporaryFile(delete=False) has returned
TmpFileCreated(env) == env.fault # "create"

\* variant: a parse failure that goes unreported and keeps the text read
extract_no_catch(uploaded_file, env) ==
    LET unlinked == TmpPathBound(env) /\ ~env.unlink_fails
    IN [text |-> IF env.fault \in {"none", "parse"}
                 THEN Normalize(RawText(uploaded_file)) ELSE <<>>,
        errors |-> <<>>,
        warnings |-> IF TmpPathBound(env) /\ env.unlink_fails
                     THEN <<StWarning("Couldn't delete temp file", "cannot unlink")>>
                     ELSE <<>>,
        tmp_left |-> IF TmpFileCreated(env) /\ ~unlinked THEN 1 ELSE 0]

\* extract_text_from_file: the value returned, the messages shown, and the
\* number of temporary files of this call still on disk when it returns
extract_text_from_file(uploaded_file, env) ==
    LET unlinked == TmpPathBound(env) /\ ~env.unlink_fails
    IN [text |-> IF env.fault = "none"
                 THEN Normalize(RawText(uploaded_file)) ELSE <<>>,
        errors |-> IF env.fault = "none" THEN <<>>
                   ELSE <<StError("Error reading file", FaultText(env.fault))>>,
        warnings |-> IF TmpPathBound(env) /\ env.unlink_fails
                     THEN <<StWarning("Couldn't delete temp file", "cannot unlink")>>
                     ELSE <<>>,
        tmp_left |-> IF TmpFileCreated(env) /\ ~unlinked THEN 1 ELSE 0]

-----------------------------------------------------------------------------
(* create_medical_pdf and show_pdf_preview.  A file is [state, bytes]:     *)
(* absent, or a file with its bytes.  The bytes of a document are its      *)
(* texts in the order the cells are laid out.                              *)

\* s.encode('ascii', 'replace').decode('ascii')
Sanitize(text) ==
    [i \in DOMAIN text |->
        IF text[i] \in {NonAscii} \cup UnicodeSpaces THEN "?" ELSE text[i]]

TitleText ==
    <<"Y","o","u","r"," ","M","e","d","i","c","a","l"," ","V","i","s","i",
      "t"," ","S","u","m","m","a","r","y">>
SymptomsLabel == <<"S","y","m","p","t","o","m","s",":","\n">>
GuidanceLabel == <<"G","u","i","d","a","n","c","e",":","\n">>
DisclaimerText ==
    <<"D","i","s","c","l","a","i","m","e","r",":"," ","T","h","i","s"," ",
      "d","o","c","u","m","e","n","t"," ","i","s"," ","n","o","t"," ","m",
      "e","d","i","c","a","l"," ","a","d","v","i","c","e","."," ","A","l",
      "w","a","y","s"," ","c","o","n","s","u","l","t"," ","a"," ","h","e",
      "a","l","t","h","c","a","r","e"," ","p","r","o","f","e","s","s","i",
      "o","n","a","l",".">>

Absent == [state |-> "absent", bytes |-> <<>>]
NotShown == [state |-> "not shown", bytes |-> <<>>]
FileOf(bytes) == [state |-> "file", bytes |-> bytes]

\* open(filename, "wb"): the file created, or cut to length 0
Truncated == FileOf(<<>>)

\* the buffer pdf.output writes, lines 87-101
DocumentBytes(symptoms_text, guide_text) ==
    TitleText \o Sanitize(SymptomsLabel \o symptoms_text)
              \o GuidanceLabel \o Sanitize(guide_text) \o DisclaimerText

\* f.write(buffer) through a handle whose offset is 0: the buffer replaces
\* the first bytes of the file, and what another handle wrote beyond stays
WriteFromStart(file, buffer) ==
    FileOf(buffer \o SubSeq(file.bytes, Len(buffer) + 1, Len(file.bytes)))

\* medical_summary.pdf as one call of create_medical_pdf alone leaves it
RenderedPdf(symptoms_text, guide_text) ==
    WriteFromStart(Truncated, DocumentBytes(symptoms_text, guide_text))

NoPath == "None"
PdfFilename == "medical_summary.pdf"

\* what create_medical_pdf returns: line 104, and line 107 after a failure
\* variant: the filename returned whatever happened
CreatePdfReturnsAlways(failed) == PdfFilename
CreatePdfReturns(failed) == IF failed THEN NoPath ELSE PdfFilename

\* full_response.append(chunk.text), line 198
\* variant: the fragment put in front
AppendChunkFront(full, chunk_text) == <<chunk_text>> \o full
AppendChunk(full, chunk_text) == Append(full, chunk_text)

-----------------------------------------------------------------------------
(* State.                                                                  *)

Sessions == {1, 2}

VARIABLES
    pc,             \* per session: where its run of main() stands
    symptoms,       \* per session: the local symptoms of main()
    response,       \* per session: the fragments the generator will yield
    it,             \* per session: how many fragments the for loop has taken
    full_response,  \* per session: the list full_response
    guide,          \* per session: the local guide
    pdf_path,       \* per session: the local pdf_path
    ui,             \* per session: what the page shows
    ran,            \* per session: the stages its current run has entered
    failed,         \* per session: the stages that raised in its current run
    retried,        \* per session: its current run follows a run with a failure
    disk,           \* the content of medical_summary.pdf in the working directory
    tmpfiles,       \* number of temporary files of extract calls left on disk
    genCalls,       \* the symptom texts generate_content was called with
    runs,           \* number of runs of main() started
    active,         \* the sessions connected to the server
    phase,          \* SpecScan, SpecExtract: "input", "returned", "again"
    arg,            \* SpecScan, SpecExtract: the argument of the call
    env,            \* SpecExtract: what the environment does to the call
    ret,            \* SpecScan, SpecExtract: what the call returned and showed
    first           \* SpecExtract: the text the first call returned

sessionVars == <<pc, symptoms, response, it, full_response, guide, pdf_path, ui,
                 ran, failed, retried>>
mainVars == <<sessionVars, disk, genCalls, runs, active>>
fnVars == <<phase, arg, env, ret, first>>
vars == <<mainVars, tmpfiles, fnVars>>

NoUpload == [type |-> "", parts |-> <<>>]
NoEnv == [fault |-> "none", unlink_fails |-> FALSE]
NoRet == [text |-> <<>>, errors |-> <<>>, warnings |-> <<>>, tmp_left |-> 0,
          hit |-> FALSE]

\* line 120, without its leading emoji
Banner == "NOT for emergencies. Always consult a real doctor."

\* the page after lines 119-120
BlankUi == [extracted |-> <<>>, errors |-> <<>>,
            warnings |-> <<[level |-> "warning", text |-> Banner, detail |-> ""]>>,
            halted |-> FALSE, streamed |-> FALSE, stream |-> <<>>,
            preview |-> NotShown, download |-> NotShown]

InitMain ==
    /\ pc = [s \in Sessions |-> "idle"]
    /\ symptoms = [s \in Sessions |-> <<>>]
    /\ response = [s \in Sessions |-> <<>>]
    /\ it = [s \in Sessions |-> 0]
    /\ full_response = [s \in Sessions |-> <<>>]
    /\ guide = [s \in Sessions |-> <<>>]
    /\ pdf_path = [s \in Sessions |-> NoPath]
    /\ ui = [s \in Sessions |-> BlankUi]
    /\ ran = [s \in Sessions |-> {}]
    /\ failed = [s \in Sessions |-> {}]
    /\ retried = [s \in Sessions |-> FALSE]
    /\ disk = Absent
    /\ genCalls = {}
    /\ runs = 0

InitFn ==
    /\ phase = "main"
    /\ arg = <<>>
    /\ env = NoEnv
    /\ ret = NoRet
    /\ first = <<>>

-----------------------------------------------------------------------------
(* Spec: the runs of main().  Streamlit runs main() from the top for every *)
(* interaction of a session, each session in a thread of one process, all  *)
(* with the same working directory.  The inputs of a run are the widgets:  *)
(* the uploaded file, the typed text, the button.  The specialty and the   *)
(* reading level only fill the prompt and the heading, and are left out.   *)

MaxRuns == 2
MaxChunks == 2

Flu == <<"f","l","u">>
ChestPain == <<"c","h","e","s","t"," ","p","a","i","n">>

TypedTexts == {<<>>, Flu, ChestPain}

MainUploads ==
    {NoUpload,
     [type |-> TXT, parts |-> << <<"c","h","e","s","t","\r","\n","p","a","i","n">> >>],
     [type |-> DOCX, parts |-> << <<"f","l","u">>, <<NonAscii>> >>],
     [type |-> PDF, parts |-> << <<" ">> >>]}

MainEnvs == {[fault |-> "none", unlink_fails |-> FALSE], [fault |-> "parse", unlink_fails |-> FALSE]}

\* the k-th fragment of a generator response
Chunk(k) == IF k % 2 = 1 THEN <<"o", "k">> ELSE <<NonAscii>>
Responses == {[k \in 1..n |-> Chunk(k)] : n \in 0..MaxChunks}

GenerationError == "generator error"
RenderError == "render error"

NoFlags == [hit |-> FALSE, errors |-> <<>>]

\* lines 147-163: which text is scanned, if any
ScannedText(uploaded_file, extracted_text, typed) ==
    IF uploaded_file # NoUpload
    THEN (IF extracted_text # <<>> THEN <<extracted_text>> ELSE <<>>)
    ELSE (IF typed # <<>> THEN <<typed>> ELSE <<>>)

NoExtract == [text |-> <<>>, errors |-> <<>>, warnings |-> <<>>, tmp_left |-> 0]

\* main() from its top to the call of generate_content, lines 118-190
Rerun(s) ==
    /\ s \in active
    /\ pc[s] = "idle"
    /\ runs < MaxRuns
    /\ \E uploaded_file \in MainUploads, e \in MainEnvs :
       \E ext \in {IF uploaded_file # NoUpload
                   THEN extract_text_from_file(uploaded_file, e) ELSE NoExtract} :
       \E typed \in TypedTexts :
       \E scanned \in {ScannedText(uploaded_file, ext.text, typed)} :
       \E flags \in {IF scanned # <<>> THEN check_red_flags(scanned[1]) ELSE NoFlags} :
       \E button \in BOOLEAN, call_raises \in BOOLEAN, resp \in Responses :
          LET sym == IF ext.text # <<>> THEN ext.text ELSE typed
              flag_errors == [i \in DOMAIN flags.errors |-> StError(flags.errors[i], "")]
              generate == ~flags.hit /\ button /\ sym # <<>>
              page == [BlankUi EXCEPT
                         !.extracted = ext.text,
                         !.halted = flags.hit,
                         !.warnings = @ \o ext.warnings \o
                             (IF ~flags.hit /\ button /\ sym = <<>>
                              THEN <<StWarning("Please describe symptoms or upload a file", "")>>
                              ELSE <<>>),
                         !.errors = ext.errors \o flag_errors \o
                             (IF generate /\ call_raises
                              THEN <<StError("Generation failed", GenerationError)>>
                              ELSE <<>>)]
          IN /\ symptoms' = [symptoms EXCEPT ![s] = sym]
             /\ ui' = [ui EXCEPT ![s] = page]
             /\ tmpfiles' = tmpfiles + ext.tmp_left
             /\ genCalls' = IF generate THEN genCalls \cup {sym} ELSE genCalls
             /\ pc' = [pc EXCEPT ![s] =
                           IF generate /\ ~call_raises THEN "streaming" ELSE "idle"]
             /\ response' = [response EXCEPT ![s] =
                                 IF generate /\ ~call_raises THEN resp ELSE <<>>]
             /\ ran' = [ran EXCEPT ![s] =
                            (IF uploaded_file # NoUpload THEN {"extract"} ELSE {})
                            \cup (IF scanned # <<>> THEN {"scan"} ELSE {})
                            \cup (IF generate THEN {"generate"} ELSE {})]
             /\ failed' = [failed EXCEPT ![s] =
                               (IF uploaded_file # NoUpload /\ e.fault # "none"
                                THEN {"extract"} ELSE {})
                               \cup (IF generate /\ call_raises THEN {"generate"} ELSE {})]
             /\ retried' = [retried EXCEPT ![s] = failed[s] # {}]
    /\ it' = [it EXCEPT ![s] = 0]
    /\ full_response' = [full_response EXCEPT ![s] = <<>>]
    /\ guide' = [guide EXCEPT ![s] = <<>>]
    /\ pdf_path' = [pdf_path EXCEPT ![s] = NoPath]
    /\ runs' = runs + 1
    /\ UNCHANGED <<disk, active, fnVars>>

\* one turn of the for loop, lines 197-202
NextChunk(s) ==
    /\ pc[s] = "streaming"
    /\ it[s] < Len(response[s])
    /\ it' = [it EXCEPT ![s] = it[s] + 1]
    /\ full_response' = [full_response EXCEPT ![s] =
                             AppendChunk(full_response[s], response[s][it[s] + 1])]
    /\ ui' = [ui EXCEPT ![s].streamed = TRUE, ![s].stream = Join(full_response'[s])]
    /\ UNCHANGED <<pc, symptoms, response, guide, pdf_path, ran, failed, retried,
                   disk, genCalls, runs, active, tmpfiles, fnVars>>

\* the generator raises when the loop asks for a fragment; line 221 catches
StreamRaises(s) ==
    /\ pc[s] = "streaming"
    /\ pc' = [pc EXCEPT ![s] = "idle"]
    /\ ui' = [ui EXCEPT ![s].errors = Append(@, StError("Generation failed", GenerationError))]
    /\ failed' = [failed EXCEPT ![s] = @ \cup {"generate"}]
    /\ UNCHANGED <<symptoms, response, it, full_response, guide, pdf_path, ran, retried,
                   disk, genCalls, runs, active, tmpfiles, fnVars>>

\* the stream ends: line 205, then create_medical_pdf up to the open of
\* pdf.output (which truncates the file), or up to a failure before it
StreamExhausted(s) ==
    /\ pc[s] = "streaming"
    /\ it[s] = Len(response[s])
    /\ guide' = [guide EXCEPT ![s] = Join(full_response[s])]
    /\ ran' = [ran EXCEPT ![s] = @ \cup {"render"}]
    /\ \/ /\ disk' = Truncated
          /\ pc' = [pc EXCEPT ![s] = "pdf_output"]
          /\ UNCHANGED <<pdf_path, ui, failed>>
       \/ /\ pdf_path' = [pdf_path EXCEPT ![s] = CreatePdfReturns(TRUE)]
          /\ ui' = [ui EXCEPT ![s].errors =
                        Append(@, StError("PDF generation failed", RenderError))]
          /\ failed' = [failed EXCEPT ![s] = @ \cup {"render"}]
          /\ pc' = [pc EXCEPT ![s] = IF pdf_path'[s] # NoPath THEN "preview" ELSE "idle"]
          /\ UNCHANGED disk
    /\ UNCHANGED <<symptoms, response, it, full_response, retried, genCalls, runs,
                   active, tmpfiles, fnVars>>

\* pdf.output writes its buffer through the handle it opened and
\* create_medical_pdf returns, lines 103-104, or the write raises, lines
\* 105-107; then line 209
PdfOutput(s) ==
    /\ pc[s] = "pdf_output"
    /\ \/ /\ disk' = WriteFromStart(disk, DocumentBytes(symptoms[s], guide[s]))
          /\ pdf_path' = [pdf_path EXCEPT ![s] = CreatePdfReturns(FALSE)]
          /\ UNCHANGED <<ui, failed>>
       \/ /\ pdf_path' = [pdf_path EXCEPT ![s] = CreatePdfReturns(TRUE)]
          /\ ui' = [ui EXCEPT ![s].errors =
                        Append(@, StError("PDF generation failed", RenderError))]
          /\ failed' = [failed EXCEPT ![s] = @ \cup {"render"}]
          /\ UNCHANGED disk
    /\ pc' = [pc EXCEPT ![s] = IF pdf_path'[s] # NoPath THEN "preview" ELSE "idle"]
    /\ UNCHANGED <<symptoms, response, it, full_response, guide, ran, retried,
                   genCalls, runs, active, tmpfiles, fnVars>>

\* show_pdf_preview(pdf_path), lines 109-115 and 210-212
ShowPreview(s) ==
    /\ pc[s] = "preview"
    /\ ui' = [ui EXCEPT ![s].preview = IF disk.state # "absent" THEN disk ELSE @]
    /\ ran' = [ran EXCEPT ![s] = @ \cup {"offer"}]
    /\ pc' = [pc EXCEPT ![s] = "download"]
    /\ UNCHANGED <<symptoms, response, it, full_response, guide, pdf_path, failed,
                   retried, disk, genCalls, runs, active, tmpfiles, fnVars>>

\* open(pdf_path) and st.download_button, lines 214-220; open raises when
\* there is no file, and line 221 catches
OfferDownload(s) ==
    /\ pc[s] = "download"
    /\ IF disk.state # "absent"
       THEN ui' = [ui EXCEPT ![s].download = disk]
       ELSE ui' = [ui EXCEPT ![s].errors =
                       Append(@, StError("Generation failed", "No such file or directory"))]
    /\ pc' = [pc EXCEPT ![s] = "idle"]
    /\ UNCHANGED <<symptoms, response, it, full_response, guide, pdf_path, ran, failed,
                   retried, disk, genCalls, runs, active, tmpfiles, fnVars>>

Init == InitMain /\ InitFn /\ tmpfiles = 0 /\ active = Sessions

Next ==
    \E s \in Sessions :
        \/ Rerun(s)
        \/ NextChunk(s)
        \/ StreamRaises(s)
        \/ StreamExhausted(s)
        \/ PdfOutput(s)
        \/ ShowPreview(s)
        \/ OfferDownload(s)

\* two sessions at the same time
Spec == Init /\ [][Next]_vars

InitSession == InitMain /\ InitFn /\ tmpfiles = 0 /\ active = {1}

\* one session, request after request
SpecSession == InitSession /\ [][Next]_vars

-----------------------------------------------------------------------------
(* SpecScan: check_red_flags on bounded texts.  A text is                  *)
(*     pre  word1  gap  word2  post  [ " "  phrase ]                       *)
(* word1 a first word of a rule or "mild", word2 a second word of a rule   *)
(* or "headache", gap a run of at most MaxGap spaces and line breaks, one  *)
(* other whitespace character or a full stop, pre and post empty, a letter *)
(* or a digit, phrase a rule's phrase; as typed or in capitals.  The empty *)
(* text is one more input.                                                 *)

MaxGap == 2

UpperChar(c) == IF c \in LowerSet THEN UpperOf[c] ELSE c
Upper(text) == [i \in DOMAIN text |-> UpperChar(text[i])]

FirstWords == {RED_FLAGS[r].w1 : r \in Rules} \cup {<<"m","i","l","d">>}
SecondWords == {RED_FLAGS[r].w2 : r \in Rules} \cup {<<"h","e","a","d","a","c","h","e">>}
Gaps == UNION {[1..n -> {" ", "\n"}] : n \in 0..MaxGap}
        \cup {<<"\r">>, <<"U+000B">>, <<"U+00A0">>, <<".">>}
Affixes == {<<>>, <<"x">>, <<"1">>}
\* what stands before and after: nothing, a letter or a digit on one side, a
\* letter on both
AffixPairs == {p \in Affixes \X Affixes :
                 p[1] = <<>> \/ p[2] = <<>> \/ (p[1] = <<"x">> /\ p[2] = <<"x">>)}
Tails == {<<>>} \cup {<<" ">> \o RED_FLAGS[r].w1 \o <<" ">> \o RED_FLAGS[r].w2 : r \in Rules}

ScanTexts ==
    LET plain == {fix[1] \o a \o g \o b \o fix[2] \o tail :
                    <<fix, a, g>> \in AffixPairs \X FirstWords \X Gaps,
                    <<b, tail>> \in SecondWords \X Tails}
    IN plain \cup {Upper(t) : t \in plain} \cup {<<>>}

InitScan ==
    /\ phase = "input"
    /\ arg \in ScanTexts
    /\ env = NoEnv
    /\ ret = NoRet
    /\ first = <<>>
    /\ tmpfiles = 0
    /\ InitMain
    /\ active = {}

CallCheckRedFlags ==
    /\ phase = "input"
    /\ phase' = "returned"
    /\ LET r == check_red_flags(arg)
       IN ret' = [NoRet EXCEPT !.hit = r.hit, !.errors = r.errors]
    /\ UNCHANGED <<arg, env, first, tmpfiles, mainVars>>

NextScan == CallCheckRedFlags

SpecScan == InitScan /\ [][NextScan]_vars

-----------------------------------------------------------------------------
(* SpecExtract: extract_text_from_file on bounded uploads, under every     *)
(* fault of the environment, then once more on the text it returned.       *)

MaxRawLen == 4
MaxPartLen == 1
MaxParts == 2

RawTexts == UNION {[1..n -> {"a", "b", " ", "\n", "\r", "U+00A0"}] : n \in 0..MaxRawLen}
PartTexts == UNION {[1..n -> {"a", " ", "\n"}] : n \in 0..MaxPartLen}

Uploads ==
    {[type |-> TXT, parts |-> <<t>>] : t \in RawTexts}
    \cup {[type |-> ty, parts |-> ps] :
            ty \in {PDF, DOCX}, ps \in UNION {[1..n -> PartTexts] : n \in 1..MaxParts}}

Envs == [fault : {"none", "create", "write", "parse"}, unlink_fails : BOOLEAN]

InitExtract ==
    /\ phase = "input"
    /\ arg \in Uploads
    /\ env \in Envs
    /\ ret = NoRet
    /\ first = <<>>
    /\ tmpfiles = 0
    /\ InitMain
    /\ active = {}

CallExtract ==
    /\ phase = "input"
    /\ phase' = "returned"
    /\ LET r == extract_text_from_file(arg, env)
       IN /\ ret' = [NoRet EXCEPT !.text = r.text, !.errors = r.errors,
                                  !.warnings = r.warnings, !.tmp_left = r.tmp_left]
          /\ first' = r.text
          /\ tmpfiles' = tmpfiles + r.tmp_left
    /\ UNCHANGED <<arg, env, mainVars>>

\* the returned text uploaded again as a text file
CallExtractAgain ==
    /\ phase = "returned"
    /\ env.fault = "none"
    /\ phase' = "again"
    /\ LET r == extract_text_from_file([type |-> TXT, parts |-> <<ret.text>>], env)
       IN /\ ret' = [NoRet EXCEPT !.text = r.text, !.errors = r.errors,
                                  !.warnings = r.warnings, !.tmp_left = r.tmp_left]
          /\ tmpfiles' = tmpfiles + r.tmp_left
    /\ UNCHANGED <<arg, env, first, mainVars>>

NextExtract == CallExtract \/ CallExtractAgain

SpecExtract == InitExtract /\ [][NextExtract]_vars

-----------------------------------------------------------------------------
(* What the claims about check_red_flags speak of: the occurrences of a    *)
(* rule's phrase in a text, read off the text character by character.      *)

\* c is the letter l in either case
FoldsTo(c, l) == c = l \/ (c \in UpperSet /\ LowerOf[c] = l)

WordAt(t, i, w) ==
    /\ i >= 1
    /\ i + Len(w) - 1 <= Len(t)
    /\ \A j \in DOMAIN w : FoldsTo(t[i + j - 1], w[j])

RECURSIVE WsRun(_, _)
\* length of the run of whitespace that starts at position i
WsRun(t, i) == IF i <= Len(t) /\ IsSpace(t[i]) THEN 1 + WsRun(t, i + 1) ELSE 0

GapAt(t, r, i) == WsRun(t, i + Len(RED_FLAGS[r].w1))
EndAt(t, r, i) == i + Len(RED_FLAGS[r].w1) + GapAt(t, r, i) + Len(RED_FLAGS[r].w2) - 1

\* the positions where rule r's phrase starts: word1, whitespace, word2
Occurrences(t, r) ==
    {i \in DOMAIN t :
        /\ WordAt(t, i, RED_FLAGS[r].w1)
        /\ WordAt(t, i + Len(RED_FLAGS[r].w1) + GapAt(t, r, i), RED_FLAGS[r].w2)}

\* a word character right before the first word or right after the last
Embedded(t, r, i) ==
    \/ i > 1 /\ IsWordChar(t[i - 1])
    \/ EndAt(t, r, i) < Len(t) /\ IsWordChar(t[EndAt(t, r, i) + 1])

ContainsSpaced(t, r) == \E i \in Occurrences(t, r) : GapAt(t, r, i) >= 1
ContainsWhole(t, r) == \E i \in Occurrences(t, r) : ~Embedded(t, r, i)
WholeRules(t) == {r \in Rules : ContainsWhole(t, r)}
Least(S) == CHOOSE r \in S : \A q \in S : r <= q

RuleMessages == {RED_FLAGS[r].message : r \in Rules}
AdvisoriesShown == SelectSeq(ret.errors, LAMBDA m : m \in RuleMessages)

\* C3 as stated: every text that contains a phrase with its words separated
\* by a non-empty run of whitespace, in any letter case, is reported with that
\* rule's advisory; a text that contains no phrase so written is not reported.
C3_AsStated ==
    phase = "returned" =>
        LET spaced == {r \in Rules : ContainsSpaced(arg, r)}
        IN /\ \A r \in spaced : ret.hit /\ RED_FLAGS[r].message \in Range(ret.errors)
           /\ spaced = {} => ~ret.hit /\ ret.errors = <<>>

\* C3 amended: a text that contains a phrase as a whole phrase (no word
\* character right before or after it), in any letter case, its words
\* separated by any run of whitespace, the empty run included, is reported
\* with the advisory of the first rule in declaration order so contained; a
\* text with no such occurrence (the empty text too) is not reported and
\* nothing is shown.
C3_WholePhraseReported ==
    phase = "returned" =>
        LET whole == WholeRules(arg)
        IN /\ whole # {} =>
                 /\ ret.hit
                 /\ ret.errors # <<>>
                 /\ ret.errors[1] = RED_FLAGS[Least(whole)].message
           /\ whole = {} => ~ret.hit /\ ret.errors = <<>>

C3_Witness ==
    /\ phase = "returned"
    /\ ret.hit
    /\ \E r \in Rules : \E i \in Occurrences(arg, r) :
          /\ ~Embedded(arg, r, i)
          /\ GapAt(arg, r, i) >= 2
          /\ arg[i] \in UpperSet

\* C4: a rule whose phrase occurs in the text only embedded in a larger word
\* does not report the text.
C4_EmbeddedNotReported ==
    phase = "returned" =>
        \A r \in Rules :
            LET occ == Occurrences(arg, r)
            IN (occ # {} /\ \A i \in occ : Embedded(arg, r, i))
                  => RED_FLAGS[r].message \notin Range(ret.errors)

C4_Witness ==
    /\ phase = "returned"
    /\ ~ret.hit
    /\ \E r \in Rules : \E i \in Occurrences(arg, r) :
          Embedded(arg, r, i) /\ GapAt(arg, r, i) >= 1

\* C5: a text that matches several rules gets exactly one advisory, that of
\* the first of them in declaration order, wherever the phrases stand.
C5_FirstDeclaredOnly ==
    phase = "returned" =>
        LET whole == WholeRules(arg)
        IN Cardinality(whole) >= 2 =>
              /\ ret.hit
              /\ Len(AdvisoriesShown) = 1
              /\ ret.errors = <<RED_FLAGS[Least(whole)].message, EmergencyNotice>>

\* the later phrase of the text belongs to the earlier rule
C5_Witness ==
    /\ phase = "returned"
    /\ Len(AdvisoriesShown) = 1
    /\ \E r, q \in WholeRules(arg) :
          /\ r < q
          /\ \E i \in Occurrences(arg, r), j \in Occurrences(arg, q) : j < i

-----------------------------------------------------------------------------
(* Claims about extract_text_from_file (SpecExtract).                      *)

\* C2 as stated: no call returns leaving a temporary file it created on disk,
\* unless the deletion itself failed, and then a warning is recorded.
C2_TempFileReleased ==
    phase # "input" =>
        (ret.tmp_left > 0 =>
            /\ env.unlink_fails
            /\ \E i \in DOMAIN ret.warnings : ret.warnings[i].text = "Couldn't delete temp file")

RECURSIVE WordsOf(_)
\* the whitespace-separated words of a text, in order
WordsOf(t) ==
    LET rest == SkipSpaces(t)
        n == CHOOSE k \in 0..Len(rest) :
                /\ \A j \in 1..k : ~IsSpace(rest[j])
                /\ (k < Len(rest) => IsSpace(rest[k + 1]))
    IN IF rest = <<>> THEN <<>>
       ELSE <<SubSeq(rest, 1, n)>> \o WordsOf(SubSeq(rest, n + 1, Len(rest)))

\* C6: the text a successful call returns has no line break, no two adjacent
\* whitespace characters, no whitespace at either end, and the words of the
\* raw text in their order; extracting it again returns it unchanged.
C6_NormalizedOnce ==
    /\ (phase = "returned" /\ env.fault = "none") =>
          /\ \A i \in DOMAIN ret.text : IsSpace(ret.text[i]) => ret.text[i] = " "
          /\ \A i \in 1..(Len(ret.text) - 1) : ~(IsSpace(ret.text[i]) /\ IsSpace(ret.text[i + 1]))
          /\ ret.text # <<>> => ~IsSpace(ret.text[1]) /\ ~IsSpace(ret.text[Len(ret.text)])
          /\ WordsOf(ret.text) = WordsOf(RawText(arg))
    /\ phase = "again" => ret.text = first

\* a raw text with a blank line between two words, extracted twice
C6_Witness ==
    /\ phase = "again"
    /\ Len(WordsOf(first)) >= 2
    /\ \E i \in 1..(Len(RawText(arg)) - 1) : RawText(arg)[i] = "\n" /\ RawText(arg)[i + 1] = "\n"
    /\ ret.text = first

-----------------------------------------------------------------------------
(* Claims about main() (Spec, SpecSession).                                *)

Shows(s, text, detail) ==
    \E i \in DOMAIN ui[s].errors :
        ui[s].errors[i].text = text /\ ui[s].errors[i].detail = detail

\* C1 as stated: generate_content is never called with a symptom text that
\* holds a hazard phrase check_red_flags matches; a run that meets one halts
\* at the scan and goes no further.
C1_NoGuidanceForFlagged ==
    /\ \A t \in genCalls : ~check_red_flags(t).hit
    /\ \A s \in Sessions : ui[s].halted => (pc[s] = "idle" /\ "generate" \notin ran[s])

\* C7: a stage that raises is reported with the failure's text, runs no later
\* stage on its output, and leaves the session ready for a new request.
C7_FailuresRecovered ==
    \A s \in Sessions :
        /\ "extract" \in failed[s] =>
              /\ \E f \in {"create", "write", "parse"} :
                    Shows(s, "Error reading file", FaultText(f))
              /\ ui[s].extracted = <<>>
              /\ symptoms[s] \in TypedTexts
        /\ "generate" \in failed[s] =>
              /\ Shows(s, "Generation failed", GenerationError)
              /\ pc[s] = "idle"
              /\ ran[s] \cap {"render", "offer"} = {}
              /\ pdf_path[s] = NoPath
              /\ ui[s].preview = NotShown /\ ui[s].download = NotShown
        /\ "render" \in failed[s] =>
              /\ Shows(s, "PDF generation failed", RenderError)
              /\ pc[s] = "idle"
              /\ "offer" \notin ran[s]
        /\ (s \in active /\ failed[s] \cap {"generate", "render"} # {} /\ runs < MaxRuns)
              => ENABLED Rerun(s)

\* a request made after a failed one, itself failing in the middle of the stream
C7_Witness ==
    \E s \in active :
        /\ retried[s]
        /\ "generate" \in failed[s]
        /\ it[s] >= 1
        /\ pc[s] = "idle"

\* C8: when create_medical_pdf fails the error is reported, no path comes
\* back, the request ends with the streamed guidance on the page, and neither
\* preview nor download is offered, whatever file an earlier request left.
C8_RenderFailureNoArtifact ==
    \A s \in Sessions :
        "render" \in failed[s] =>
            /\ Shows(s, "PDF generation failed", RenderError)
            /\ pdf_path[s] = NoPath
            /\ pc[s] = "idle"
            /\ ui[s].preview = NotShown
            /\ ui[s].download = NotShown
            /\ "offer" \notin ran[s]
            /\ ui[s].stream = Join(response[s])
            /\ response[s] # <<>> => ui[s].streamed

\* rendering fails while the artifact of an earlier request is on disk
C8_Witness ==
    \E s \in active :
        /\ "render" \in failed[s]
        /\ disk.state = "file" /\ disk.bytes # <<>>
        /\ ui[s].streamed

\* C9 as stated: what a request previews and what it offers for download are
\* the same bytes, the artifact rendered from its own symptoms and guidance.
C9_OwnArtifact ==
    \A s \in Sessions :
        /\ ui[s].preview # NotShown => ui[s].preview = RenderedPdf(symptoms[s], guide[s])
        /\ ui[s].download # NotShown =>
              /\ ui[s].download = RenderedPdf(symptoms[s], guide[s])
              /\ ui[s].download = ui[s].preview

\* C10: after the k-th fragment the page shows fragments 1..k joined in
\* order; rendering starts only when the stream is exhausted, with all the
\* fragments joined in order as the guidance.
C10_FragmentsInOrder ==
    \A s \in Sessions :
        "generate" \in ran[s] =>
            /\ it[s] <= Len(response[s])
            /\ full_response[s] = SubSeq(response[s], 1, it[s])
            /\ it[s] >= 1 => ui[s].stream = Join(SubSeq(response[s], 1, it[s]))
            /\ "render" \in ran[s] =>
                  /\ it[s] = Len(response[s])
                  /\ guide[s] = Join(response[s])
                  /\ "generate" \notin failed[s]

C10_Witness ==
    \E s \in active :
        /\ "render" \in ran[s]
        /\ Len(response[s]) >= 2
        /\ pc[s] = "preview"

=============================================================================
